---- MODULE Spec2Model ----
(***************************************************************************)
(* torrent-inspector: the upload handler `torrent` of src/main.rs and the  *)
(* metainfo schema of src/torrent.rs.                                      *)
(*                                                                         *)
(* A byte is a one-element string token.  All tokens are ASCII except      *)
(* "xFF", a byte that is never part of valid UTF-8, and "NUL", the zero    *)
(* byte.  A buffer is a sequence of bytes.                                 *)
(*                                                                         *)
(* Spec serves one upload of any content on its own; SpecConc serves       *)
(* NumReq uploads at once, their steps interleaved.                        *)
(***************************************************************************)
EXTENDS Integers, Sequences, FiniteSets, TLC

(***************************************************************************)
(* Bounds of the model.                                                    *)
(***************************************************************************)
\* requests handled by the server
NumReq == 2
\* longest display name drawn over NameChars
MaxNameLen == 3
\* short write() calls one write_all may see before the kernel takes the rest
MaxShortWrites == 1
\* bytes taken by a short write() call
ShortLen == 7

(***************************************************************************)
(* Bytes and decimal numbers.                                              *)
(***************************************************************************)
Digits == <<"0", "1", "2", "3", "4", "5", "6", "7", "8", "9">>

IsDigit(c) == \E i \in 1..10 : Digits[i] = c

DigitVal(c) == (CHOOSE i \in 1..10 : Digits[i] = c) - 1

RECURSIVE Dec(_)
\* decimal digits of a natural number (what the encoder of a torrent tool writes)
Dec(n) == IF n < 10 THEN <<Digits[n + 1]>> ELSE Dec(n \div 10) \o <<Digits[(n % 10) + 1]>>

RECURSIVE DecVal(_)
\* value of a non-empty digit string
DecVal(s) ==
    IF Len(s) = 1 THEN DigitVal(s[1])
    ELSE 10 * DecVal(SubSeq(s, 1, Len(s) - 1)) + DigitVal(s[Len(s)])

AllDigits(s) == Len(s) > 0 /\ \A i \in 1..Len(s) : IsDigit(s[i])

RECURSIVE Flatten(_)
Flatten(ss) == IF ss = <<>> THEN <<>> ELSE Head(ss) \o Flatten(Tail(ss))

RECURSIVE Rep(_, _)
Rep(c, n) == IF n = 0 THEN <<>> ELSE <<c>> \o Rep(c, n - 1)

\* position of the first c in buf at or after p, or 0
FirstAt(buf, p, c) ==
    IF \E i \in p..Len(buf) : buf[i] = c
    THEN CHOOSE i \in p..Len(buf) : buf[i] = c /\ \A j \in p..(i - 1) : buf[j] # c
    ELSE 0

(***************************************************************************)
(* Bencode writers, used only to build the uploaded buffers.               *)
(***************************************************************************)
BInt(n) == <<"i">> \o (IF n < 0 THEN <<"-">> \o Dec(0 - n) ELSE Dec(n)) \o <<"e">>

BStr(s) == Dec(Len(s)) \o <<":">> \o s

BList(items) == <<"l">> \o Flatten(items) \o <<"e">>

\* pairs: a sequence of <<key, encoded value>>
BDict(pairs) ==
    <<"d">> \o Flatten([i \in 1..Len(pairs) |-> BStr(pairs[i][1]) \o pairs[i][2]]) \o <<"e">>

(***************************************************************************)
(* serde_bencode's reader: one value of the bencode grammar at position p. *)
(* A result is [ok, v, next]; v is tagged by t:                            *)
(*   "int" (i), "bytes" (b), "list" (l: values), "dict" (d: [k, v] pairs). *)
(***************************************************************************)
ParseErr == [ok |-> FALSE]

\* Rust's str::parse::<i64>: an optional sign, then one or more digits
ParseI64(s) ==
    LET neg == Len(s) > 0 /\ s[1] = "-"
        sgn == Len(s) > 0 /\ s[1] \in {"-", "+"}
        ds  == IF sgn THEN Tail(s) ELSE s
    IN  IF AllDigits(ds)
        THEN [ok |-> TRUE, i |-> IF neg THEN 0 - DecVal(ds) ELSE DecVal(ds)]
        ELSE ParseErr

\* "i" already read at p - 1: bytes up to the next "e" are the literal
ParseInt(buf, p) ==
    LET e == FirstAt(buf, p, "e")
    IN  IF e = 0 THEN ParseErr
        ELSE LET r == ParseI64(SubSeq(buf, p, e - 1))
             IN  IF r.ok THEN [ok |-> TRUE, v |-> [t |-> "int", i |-> r.i], next |-> e + 1]
                 ELSE ParseErr

\* first length digit at p: digits up to ":" are the length, then that many bytes
ParseBytes(buf, p) ==
    LET c == FirstAt(buf, p, ":")
    IN  IF c = 0 \/ ~AllDigits(SubSeq(buf, p, c - 1)) THEN ParseErr
        ELSE LET n == DecVal(SubSeq(buf, p, c - 1))
             IN  IF c + n > Len(buf) THEN ParseErr
                 ELSE [ok |-> TRUE, v |-> [t |-> "bytes", b |-> SubSeq(buf, c + 1, c + n)],
                       next |-> c + n + 1]

RECURSIVE ParseValue(_, _)
RECURSIVE ParseList(_, _, _)
RECURSIVE ParseDict(_, _, _)

ParseValue(buf, p) ==
    IF p > Len(buf) THEN ParseErr
    ELSE CASE buf[p] = "i" -> ParseInt(buf, p + 1)
           [] IsDigit(buf[p]) -> ParseBytes(buf, p)
           [] buf[p] = "l" -> ParseList(buf, p + 1, <<>>)
           [] buf[p] = "d" -> ParseDict(buf, p + 1, <<>>)
           [] OTHER -> ParseErr

ParseList(buf, p, acc) ==
    IF p > Len(buf) THEN ParseErr
    ELSE IF buf[p] = "e" THEN [ok |-> TRUE, v |-> [t |-> "list", l |-> acc], next |-> p + 1]
    ELSE LET r == ParseValue(buf, p)
         IN  IF r.ok THEN ParseList(buf, r.next, Append(acc, r.v)) ELSE ParseErr

ParseDict(buf, p, acc) ==
    IF p > Len(buf) THEN ParseErr
    ELSE IF buf[p] = "e" THEN [ok |-> TRUE, v |-> [t |-> "dict", d |-> acc], next |-> p + 1]
    ELSE LET k == ParseValue(buf, p)
         IN  IF ~k.ok \/ k.v.t # "bytes" THEN ParseErr
             ELSE LET r == ParseValue(buf, k.next)
                  IN  IF r.ok
                      THEN ParseDict(buf, r.next, Append(acc, [k |-> k.v.b, v |-> r.v]))
                      ELSE ParseErr

(***************************************************************************)
(* Dictionary keys of the schema (the field names and serde renames of     *)
(* Torrent, Info and File), as bytes.                                      *)
(***************************************************************************)
K_announce == <<"a", "n", "n", "o", "u", "n", "c", "e">>
K_info == <<"i", "n", "f", "o">>
K_announce_list == <<"a", "n", "n", "o", "u", "n", "c", "e", "-", "l", "i", "s", "t">>
K_nodes == <<"n", "o", "d", "e", "s">>
K_creation_date == <<"c", "r", "e", "a", "t", "i", "o", "n", " ", "d", "a", "t", "e">>
K_comment == <<"c", "o", "m", "m", "e", "n", "t">>
K_created_by == <<"c", "r", "e", "a", "t", "e", "d", " ", "b", "y">>
K_encoding == <<"e", "n", "c", "o", "d", "i", "n", "g">>
K_name == <<"n", "a", "m", "e">>
K_length == <<"l", "e", "n", "g", "t", "h">>
K_piece_length == <<"p", "i", "e", "c", "e", " ", "l", "e", "n", "g", "t", "h">>
K_pieces == <<"p", "i", "e", "c", "e", "s">>
K_files == <<"f", "i", "l", "e", "s">>
K_private == <<"p", "r", "i", "v", "a", "t", "e">>
K_md5sum == <<"m", "d", "5", "s", "u", "m">>
K_path == <<"p", "a", "t", "h">>
K_root_hash == <<"r", "o", "o", "t", " ", "h", "a", "s", "h">>

(***************************************************************************)
(* serde's visitors for the field types of the schema.  A result is        *)
(* [ok, x].  Option<T> is None or Some(x).                                 *)
(***************************************************************************)
DeErr == [ok |-> FALSE]

DeOk(x) == [ok |-> TRUE, x |-> x]

None == [some |-> FALSE]

Some(x) == [some |-> TRUE, x |-> x]

\* String::from_utf8 on the bytes of a field
ValidUtf8(b) == \A i \in 1..Len(b) : b[i] # "xFF"

\* String: a byte string that is valid UTF-8
DeString(v) == IF v.t = "bytes" /\ ValidUtf8(v.b) THEN DeOk(v.b) ELSE DeErr

\* i64: any integer
DeI64(v) == IF v.t = "int" THEN DeOk(v.i) ELSE DeErr

\* u64: visit_i64 refuses a negative integer
DeU64(v) == IF v.t = "int" /\ v.i >= 0 THEN DeOk(v.i) ELSE DeErr

\* u8: an integer in 0..255
DeU8(v) == IF v.t = "int" /\ v.i >= 0 /\ v.i <= 255 THEN DeOk(v.i) ELSE DeErr

\* serde_bytes Vec<u8>: the raw bytes, no UTF-8 requirement
DeByteBuf(v) == IF v.t = "bytes" THEN DeOk(v.b) ELSE DeErr

\* struct Node(String, i64): a two-element list (no upload drawn carries a longer one)
Node(v) ==
    IF v.t = "list" /\ Len(v.l) = 2 /\ DeString(v.l[1]).ok /\ DeI64(v.l[2]).ok
    THEN DeOk(<<v.l[1].b, v.l[2].i>>)
    ELSE DeErr

\* the field types of the schema that hold no struct with named fields
TString == [k |-> "String"]

TI64 == [k |-> "i64"]

TU64 == [k |-> "u64"]

TU8 == [k |-> "u8"]

TByteBuf == [k |-> "ByteBuf"]

TNode == [k |-> "Node"]

TVec(ty) == [k |-> "Vec", of |-> ty]

TOption(ty) == [k |-> "Option", of |-> ty]

RECURSIVE De(_, _)
\* T::deserialize for a field type: Vec<T> takes a list and every element as T;
\* for Option<T>, deserialize_option hands a present value to visit_some
De(ty, v) ==
    CASE ty.k = "String" -> DeString(v)
      [] ty.k = "i64" -> DeI64(v)
      [] ty.k = "u64" -> DeU64(v)
      [] ty.k = "u8" -> DeU8(v)
      [] ty.k = "ByteBuf" -> DeByteBuf(v)
      [] ty.k = "Node" -> Node(v)
      [] ty.k = "Vec" ->
            IF v.t # "list" THEN DeErr
            ELSE IF \A i \in 1..Len(v.l) : De(ty.of, v.l[i]).ok
                 THEN DeOk([i \in 1..Len(v.l) |-> De(ty.of, v.l[i]).x])
                 ELSE DeErr
      [] ty.k = "Option" ->
            LET r == De(ty.of, v) IN IF r.ok THEN DeOk(Some(r.x)) ELSE DeErr

\* the entries of a dictionary under one key: how many, and the value of one
Lookup(d, key) ==
    LET idx == {i \in 1..Len(d) : d[i].k = key}
    IN  [n |-> Cardinality(idx),
         v |-> IF idx = {} THEN [t |-> "none"] ELSE d[CHOOSE i \in idx : TRUE].v]

\* a field of a derived struct: given twice it is "duplicate field"; absent it
\* is the default when the field has one (hasDefault), else "missing field"
DeField(d, key, ty, hasDefault, default) ==
    LET e == Lookup(d, key)
    IN  IF e.n > 1 THEN DeErr
        ELSE IF e.n = 0 THEN (IF hasDefault THEN DeOk(default) ELSE DeErr)
        ELSE De(ty, e.v)

\* struct File { length: u64, md5sum: Option<String> (default), path: Vec<String> }
File(v) ==
    IF v.t # "dict" THEN DeErr
    ELSE LET length == DeField(v.d, K_length, TU64, FALSE, 0)
             md5sum == DeField(v.d, K_md5sum, TOption(TString), TRUE, None)
             path   == DeField(v.d, K_path, TVec(TString), FALSE, 0)
         IN  IF length.ok /\ md5sum.ok /\ path.ok
             THEN DeOk([length |-> length.x, md5sum |-> md5sum.x, path |-> path.x])
             ELSE DeErr

\* Option<Vec<File>>: a present value is a list and every element a File
DeOptVecFile(v) ==
    IF v.t # "list" THEN DeErr
    ELSE IF \A i \in 1..Len(v.l) : File(v.l[i]).ok
         THEN DeOk(Some([i \in 1..Len(v.l) |-> File(v.l[i]).x]))
         ELSE DeErr

\* struct Info: name, piece length and pieces are required; length and files
\* are two independent optional fields, both defaulting to None
Info(v) ==
    IF v.t # "dict" THEN DeErr
    ELSE LET name         == DeField(v.d, K_name, TString, FALSE, 0)
             length       == DeField(v.d, K_length, TOption(TI64), TRUE, None)
             piece_length == DeField(v.d, K_piece_length, TI64, FALSE, 0)
             pieces       == DeField(v.d, K_pieces, TByteBuf, FALSE, 0)
             fs           == Lookup(v.d, K_files)
             files        == IF fs.n > 1 THEN DeErr
                             ELSE IF fs.n = 0 THEN DeOk(None)
                             ELSE DeOptVecFile(fs.v)
             private      == DeField(v.d, K_private, TOption(TU8), TRUE, None)
             md5sum       == DeField(v.d, K_md5sum, TOption(TString), TRUE, None)
             path         == DeField(v.d, K_path, TOption(TVec(TString)), TRUE, None)
             root_hash    == DeField(v.d, K_root_hash, TOption(TString), TRUE, None)
         IN  IF /\ name.ok /\ length.ok /\ piece_length.ok /\ pieces.ok /\ files.ok
                /\ private.ok /\ md5sum.ok /\ path.ok /\ root_hash.ok
             THEN DeOk([name |-> name.x, length |-> length.x,
                        piece_length |-> piece_length.x, pieces |-> pieces.x,
                        files |-> files.x, private |-> private.x, md5sum |-> md5sum.x,
                        path |-> path.x, root_hash |-> root_hash.x])
             ELSE DeErr

\* struct Torrent: only info is required (an absent Option field is None)
Torrent(v) ==
    IF v.t # "dict" THEN DeErr
    ELSE LET announce      == DeField(v.d, K_announce, TOption(TString), TRUE, None)
             inf           == Lookup(v.d, K_info)
             info          == IF inf.n = 1 THEN Info(inf.v) ELSE DeErr
             announce_list == DeField(v.d, K_announce_list, TVec(TVec(TString)), TRUE, <<>>)
             nodes         == DeField(v.d, K_nodes, TVec(TNode), TRUE, <<>>)
             creation_date == DeField(v.d, K_creation_date, TOption(TU64), TRUE, None)
             comment       == DeField(v.d, K_comment, TOption(TString), TRUE, None)
             created_by    == DeField(v.d, K_created_by, TOption(TString), TRUE, None)
             encoding      == DeField(v.d, K_encoding, TOption(TString), TRUE, None)
         IN  IF /\ announce.ok /\ info.ok /\ announce_list.ok /\ nodes.ok
                /\ creation_date.ok /\ comment.ok /\ created_by.ok /\ encoding.ok
             THEN DeOk([announce |-> announce.x, info |-> info.x,
                        announce_list |-> announce_list.x, nodes |-> nodes.x,
                        creation_date |-> creation_date.x, comment |-> comment.x,
                        created_by |-> created_by.x, encoding |-> encoding.x])
             ELSE DeErr

\* serde_bencode::from_bytes::<Torrent>: one value read from the front of the
\* buffer and mapped; bytes after it are not looked at
from_bytes(buf) ==
    LET r == ParseValue(buf, 1) IN IF r.ok THEN Torrent(r.v) ELSE DeErr

(***************************************************************************)
(* The uploads drawn.  Each is the output of the writers above for one     *)
(* choice of display name, file layout, pieces length and comment, or a    *)
(* damaged buffer.                                                         *)
(***************************************************************************)
NameChars == {"a", "/", "."}

RECURSIVE SeqsUpTo(_, _)
\* all sequences over S of length at most n
SeqsUpTo(S, n) ==
    IF n = 0 THEN {<<>>}
    ELSE LET shorter == SeqsUpTo(S, n - 1)
         IN  shorter \cup {Append(q, c) : q \in shorter, c \in S}

Names == SeqsUpTo(NameChars, MaxNameLen)

LSingle(n) == << <<K_length, BInt(n)>> >>

LFile(n, segs) ==
    BDict(<< <<K_length, BInt(n)>>,
             <<K_path, BList([i \in 1..Len(segs) |-> BStr(segs[i])])>> >>)

LMulti(n) == << <<K_files, BList(<<LFile(n, << <<"f">> >>)>>)>> >>

LNeither == << >>

LBoth == LMulti(3) \o LSingle(100)

\* a metainfo buffer: top-level comment and info; info holds the layout keys,
\* name, piece length and pieces (npieces bytes)
Upload(name, layout, npieces, comment) ==
    BDict(<< <<K_comment, BStr(comment)>>,
             <<K_info, BDict(layout \o
                             << <<K_name, BStr(name)>>,
                                <<K_piece_length, BInt(16384)>>,
                                <<K_pieces, BStr(Rep("h", npieces))>> >>)>> >>)

Plain == Upload(<<"a">>, LSingle(100), 20, <<>>)

\* the same display name as Plain, more bytes
Longer == Upload(<<"a">>, LSingle(100), 20, <<"c", "o", "m", "m", "e", "n", "t">>)

\* a multi-file torrent with every top-level key and a private flag
Full ==
    BDict(<< <<K_announce, BStr(<<"t">>)>>,
             <<K_announce_list, BList(<<BList(<<BStr(<<"t">>), BStr(<<"u">>)>>), BList(<<>>)>>)>>,
             <<K_comment, BStr(<<"c">>)>>,
             <<K_created_by, BStr(<<"m">>)>>,
             <<K_creation_date, BInt(12)>>,
             <<K_encoding, BStr(<<"U">>)>>,
             <<K_info, BDict(LMulti(3) \o
                             << <<K_name, BStr(<<"d">>)>>,
                                <<K_piece_length, BInt(16384)>>,
                                <<K_pieces, BStr(Rep("h", 20))>>,
                                <<K_private, BInt(1)>> >>)>>,
             <<K_nodes, BList(<<BList(<<BStr(<<"h">>), BInt(6881)>>)>>)>> >>)

Damaged ==
    { <<>>, <<"x">>, BInt(5), BDict(<< <<K_comment, BStr(<<"c">>)>> >>),
      BDict(<< <<K_info, BInt(1)>> >>),
      SubSeq(Plain, 1, Len(Plain) - 3),
      Upload(<<"xFF">>, LSingle(100), 20, <<>>) }

Buffers ==
    {Upload(n, LSingle(100), 20, <<>>) : n \in Names}
        \cup {Upload(<<"a">>, l, 20, <<>>) :
                l \in {LMulti(3), LMulti(-3), LSingle(-1), LBoth, LNeither}}
        \cup {Upload(<<"a">>, LSingle(100), k, <<>>) : k \in {0, 19, 40}}
        \cup {Longer, Full, Plain \o <<"z">>, Upload(<<"a", "NUL">>, LSingle(100), 20, <<>>)}
        \cup Damaged

\* the uploads of the overlapping runs: two display names, one of them shared
\* by buffers of different length, and a buffer that does not decode
ConcBuffers == {Plain, Longer, Upload(<<"/">>, LMulti(3), 40, <<>>), <<"x">>}

\* from_bytes of every upload drawn, computed once
Decoded == [b \in Buffers \cup ConcBuffers |-> from_bytes(b)]

(***************************************************************************)
(* The handler `torrent`, one instance per request, and the directory /tmp *)
(* they share.                                                             *)
(***************************************************************************)
Req == 1..NumReq

VARIABLES
    pc,       \* pc[r]: "idle" (not yet routed), "read" (in the field loop),
              \* "create" (before File::create), "write" (inside write_all), "done"
    passed,   \* passed[r]: the loop has gone round for a field of another name
    last,     \* last[r]: what the latest body.next_field()/field step met
    data,     \* data[r]: data_raw, the bytes of the "file" field, or NoData
    torrent,  \* torrent[r]: the local `torrent`, None until decoded
    file,     \* file[r]: the open std::fs::File [path, pos], or Closed
    shorts,   \* shorts[r]: short write() calls seen by this write_all
    io,       \* io[r]: how File::create and write_all went for this request, and
              \* what the file held when write_all returned Ok
    storage,  \* storage[p]: bytes of the file at path p, for each path that exists
    resp      \* resp[r]: the response returned, or NoResp

vars == <<pc, passed, last, data, torrent, file, shorts, io, storage, resp>>

NoData == <<"-">>

Closed == [open |-> FALSE]

NoResp == [type |-> "none"]

NoIO == [create |-> "none", write |-> "none", stored |-> NoData]

FailText ==
    <<"F", "a", "i", "l", "e", "d", " ", "t", "o", " ", "p", "a", "r", "s", "e", " ",
      "t", "o", "r", "r", "e", "n", "t">>

\* variant: the tail unwraps the Option and has no answer for None
RespondUnwrap(t) ==
    IF t.some THEN [type |-> "success", data |-> t.x] ELSE NoResp

\* the tail of the handler: match torrent { Some(t) => Success(t), None => Fail(..) }
Respond(t) ==
    IF t.some THEN [type |-> "success", data |-> t.x]
    ELSE [type |-> "fail", data |-> FailText]

\* variant: replacen("/", .., 1)
ReplaceFirstOnly(name) ==
    LET k == FirstAt(name, 1, "/")
    IN  IF k = 0 THEN name
        ELSE SubSeq(name, 1, k - 1) \o <<"U+FF0F">> \o SubSeq(name, k + 1, Len(name))

\* torrent_name.replace("/", FULLWIDTH SOLIDUS): every "/" becomes the one
\* character U+FF0F
Replace(name) ==
    Flatten([i \in 1..Len(name) |-> IF name[i] = "/" THEN <<"U+FF0F">> ELSE <<name[i]>>])

\* format!("/tmp/{name}.torrent")
PathOf(name) ==
    <<"/", "t", "m", "p", "/">> \o Replace(name)
        \o <<".", "t", "o", "r", "r", "e", "n", "t">>

\* a path with a zero byte is refused by File::create before any system call
Openable(path) == \A i \in 1..Len(path) : path[i] # "NUL"

\* the file's bytes after write() puts chunk at offset pos (a gap left by a
\* truncation in between reads as zero bytes)
WriteAt(content, pos, chunk) ==
    LET end == pos + Len(chunk)
        n   == IF Len(content) > end THEN Len(content) ELSE end
    IN  [i \in 1..n |->
            IF i > pos /\ i <= end THEN chunk[i - pos]
            ELSE IF i <= Len(content) THEN content[i]
            ELSE "NUL"]

Init ==
    /\ pc = [r \in Req |-> "idle"]
    /\ passed = [r \in Req |-> FALSE]
    /\ last = [r \in Req |-> "none"]
    /\ data = [r \in Req |-> NoData]
    /\ torrent = [r \in Req |-> None]
    /\ file = [r \in Req |-> Closed]
    /\ shorts = [r \in Req |-> 0]
    /\ io = [r \in Req |-> NoIO]
    /\ storage = <<>>
    /\ resp = [r \in Req |-> NoResp]

\* leave the try block with t and return the response
Finish(r, t) ==
    /\ pc' = [pc EXCEPT ![r] = "done"]
    /\ resp' = [resp EXCEPT ![r] = Respond(t)]

\* the router hands a POST /torrent to the handler
Start(r) ==
    /\ pc[r] = "idle"
    /\ pc' = [pc EXCEPT ![r] = "read"]
    /\ UNCHANGED <<passed, last, data, torrent, file, shorts, io, storage, resp>>

\* body.next_field().await is Err: .ok()? leaves with None
NextFieldErr(r) ==
    /\ pc[r] = "read"
    /\ last' = [last EXCEPT ![r] = "readerr"]
    /\ Finish(r, None)
    /\ UNCHANGED <<passed, data, torrent, file, shorts, io, storage>>

\* body.next_field().await is Ok(None): break None
NextFieldEnd(r) ==
    /\ pc[r] = "read"
    /\ last' = [last EXCEPT ![r] = "end"]
    /\ Finish(r, None)
    /\ UNCHANGED <<passed, data, torrent, file, shorts, io, storage>>

\* a field without a name: field.name()? leaves with None
FieldNoName(r) ==
    /\ pc[r] = "read"
    /\ last' = [last EXCEPT ![r] = "noname"]
    /\ Finish(r, None)
    /\ UNCHANGED <<passed, data, torrent, file, shorts, io, storage>>

\* variant: the `else { break None }` arm taken for a field of another name
FieldOtherBreaks(r) ==
    /\ pc[r] = "read"
    /\ passed' = [passed EXCEPT ![r] = TRUE]
    /\ last' = [last EXCEPT ![r] = "other"]
    /\ Finish(r, None)
    /\ UNCHANGED <<data, torrent, file, shorts, io, storage>>

\* a field whose name is not "file": the loop goes round
FieldOther(r) ==
    /\ pc[r] = "read"
    /\ passed' = [passed EXCEPT ![r] = TRUE]
    /\ last' = [last EXCEPT ![r] = "other"]
    /\ UNCHANGED <<pc, data, torrent, file, shorts, io, storage, resp>>

\* the "file" field, field.bytes().await is Err
FieldFileBytesErr(r) ==
    /\ pc[r] = "read"
    /\ last' = [last EXCEPT ![r] = "byteserr"]
    /\ Finish(r, None)
    /\ UNCHANGED <<passed, data, torrent, file, shorts, io, storage>>

\* the "file" field with bytes b: decode, and go on to save it or leave
FieldFile(r, b) ==
    /\ pc[r] = "read"
    /\ last' = [last EXCEPT ![r] = "file"]
    /\ data' = [data EXCEPT ![r] = b]
    /\ IF Decoded[b].ok
       THEN /\ torrent' = [torrent EXCEPT ![r] = Some(Decoded[b].x)]
            /\ pc' = [pc EXCEPT ![r] = "create"]
            /\ UNCHANGED resp
       ELSE /\ Finish(r, None)
            /\ UNCHANGED torrent
    /\ UNCHANGED <<passed, file, shorts, io, storage>>

\* variant: OpenOptions::create_new(true), which refuses a path that exists
CreateNew(r) ==
    /\ pc[r] = "create"
    /\ LET path == PathOf(torrent[r].x.info.name)
       IN  /\ Openable(path)
           /\ IF path \in DOMAIN storage
              THEN /\ Finish(r, None)
                   /\ UNCHANGED <<file, io, storage>>
              ELSE /\ storage' = [p \in DOMAIN storage \cup {path} |->
                                    IF p = path THEN <<>> ELSE storage[p]]
                   /\ file' = [file EXCEPT ![r] = [open |-> TRUE, path |-> path, pos |-> 0]]
                   /\ io' = [io EXCEPT ![r].create = "ok"]
                   /\ pc' = [pc EXCEPT ![r] = "write"]
                   /\ UNCHANGED resp
    /\ UNCHANGED <<passed, last, data, torrent, shorts>>

\* File::create succeeds: the file exists and is empty, whatever it held
Create(r) ==
    /\ pc[r] = "create"
    /\ LET path == PathOf(torrent[r].x.info.name)
       IN  /\ Openable(path)
           /\ storage' = [p \in DOMAIN storage \cup {path} |->
                             IF p = path THEN <<>> ELSE storage[p]]
           /\ file' = [file EXCEPT ![r] = [open |-> TRUE, path |-> path, pos |-> 0]]
    /\ io' = [io EXCEPT ![r].create = "ok"]
    /\ pc' = [pc EXCEPT ![r] = "write"]
    /\ UNCHANGED <<passed, last, data, torrent, shorts, resp>>

\* File::create is Err (bad path, no permission, no space): leave with None
CreateErr(r) ==
    /\ pc[r] = "create"
    /\ io' = [io EXCEPT ![r].create = "err"]
    /\ Finish(r, None)
    /\ UNCHANGED <<passed, last, data, torrent, file, shorts, storage>>

\* one write() of write_all takes n bytes at the handle's offset; when the
\* buffer is through, drop(file) and break Some(torrent)
Write(r, n) ==
    /\ pc[r] = "write"
    /\ LET f   == file[r]
           rem == Len(data[r]) - f.pos
       IN  /\ \/ n = rem
              \/ n = ShortLen /\ n < rem /\ shorts[r] < MaxShortWrites
           /\ storage' = [storage EXCEPT
                             ![f.path] = WriteAt(@, f.pos, SubSeq(data[r], f.pos + 1, f.pos + n))]
           /\ IF n = rem
              THEN /\ file' = [file EXCEPT ![r] = Closed]
                   /\ io' = [io EXCEPT ![r].write = "ok", ![r].stored = storage'[f.path]]
                   /\ Finish(r, torrent[r])
                   /\ UNCHANGED shorts
              ELSE /\ file' = [file EXCEPT ![r].pos = @ + n]
                   /\ shorts' = [shorts EXCEPT ![r] = @ + 1]
                   /\ UNCHANGED <<pc, io, resp>>
    /\ UNCHANGED <<passed, last, data, torrent>>

\* a write() of write_all is Err: the file is dropped as it is, leave with None
WriteErr(r) ==
    /\ pc[r] = "write"
    /\ file' = [file EXCEPT ![r] = Closed]
    /\ io' = [io EXCEPT ![r].write = "err"]
    /\ Finish(r, None)
    /\ UNCHANGED <<passed, last, data, torrent, shorts, storage>>

\* no other request has arrived
Alone(r) == \A q \in Req \ {r} : pc[q] = "idle"

\* the router hands over a request while no other has arrived
StartAlone(r) == Alone(r) /\ Start(r)

\* one upload, of any content, served on its own
Next ==
    \E r \in Req :
        \/ StartAlone(r)
        \/ NextFieldErr(r)
        \/ NextFieldEnd(r)
        \/ FieldNoName(r)
        \/ FieldOther(r)
        \/ FieldFileBytesErr(r)
        \/ \E b \in Buffers : FieldFile(r, b)
        \/ Create(r)
        \/ CreateErr(r)
        \/ \E n \in 1..Len(data[r]) : Write(r, n)
        \/ WriteErr(r)

Spec == Init /\ [][Next]_vars

\* uploads served by tasks on the runtime's worker threads, their steps in any
\* order; the requests drawn here carry no field of another name before the
\* one that ends the loop
NextConc ==
    \E r \in Req :
        \/ Start(r)
        \/ NextFieldErr(r)
        \/ NextFieldEnd(r)
        \/ FieldNoName(r)
        \/ FieldFileBytesErr(r)
        \/ \E b \in ConcBuffers : FieldFile(r, b)
        \/ Create(r)
        \/ CreateErr(r)
        \/ \E n \in 1..Len(data[r]) : Write(r, n)
        \/ WriteErr(r)

SpecConc == Init /\ [][NextConc]_vars

(***************************************************************************)
(* Properties.                                                             *)
(***************************************************************************)
Fail == [type |-> "fail", data |-> FailText]

Success(t) == [type |-> "success", data |-> t]

\* equal responses: the same shape carrying the same value
Same(a, b) == a.type = b.type /\ (a.type # "none" => a.data = b.data)

Answered(r) == pc[r] = "done"

Succeeded(r) == Answered(r) /\ resp[r].type = "success"

Failed(r) == Answered(r) /\ resp[r].type = "fail"

Slashes(s) == Cardinality({i \in 1..Len(s) : s[i] = "/"})

\* C1: a request is answered exactly when the handler is through, the answer
\* is Fail with its text or Success with the Torrent decoded from the bytes
\* of the "file" field, whatever step failed, and an answer once given stays.
C1_OneResponse ==
    /\ [](\A r \in Req :
            /\ pc[r] \in {"idle", "read", "create", "write", "done"}
            /\ Answered(r) <=> resp[r] # NoResp
            /\ Answered(r) =>
                  \/ Same(resp[r], Fail)
                  \/ /\ data[r] # NoData
                     /\ Decoded[data[r]].ok
                     /\ Same(resp[r], Success(Decoded[data[r]].x)))
    /\ [][\A r \in Req : resp[r] # NoResp => Same(resp'[r], resp[r]) /\ pc'[r] = "done"]_vars

\* a request was answered Fail after a write of its write_all failed, with
\* part of the upload in the file
C1_Witness ==
    \E r \in Req :
        /\ Failed(r) /\ io[r].write = "err"
        /\ storage[PathOf(torrent[r].x.info.name)] # <<>>

\* C2: on every Success exactly one of info.length and info.files is present.
C2_ExactlyOneLayout ==
    \A r \in Req :
        Succeeded(r) => (resp[r].data.info.length.some # resp[r].data.info.files.some)

\* C3: on every Success the byte length of info.pieces is a multiple of 20.
C3_PiecesMultipleOf20 ==
    \A r \in Req : Succeeded(r) => Len(resp[r].data.info.pieces) % 20 = 0

\* C4: on every Success info.length and every files[i].length is non-negative.
C4_LengthsNonNegative ==
    \A r \in Req :
        Succeeded(r) =>
            LET info == resp[r].data.info
            IN  /\ info.length.some => info.length.x >= 0
                /\ info.files.some =>
                       \A i \in 1..Len(info.files.x) : info.files.x[i].length >= 0

\* C5: a request answered Fail has created, truncated and written no file, and
\* for a request answered Success the file held the uploaded bytes when it
\* was written.
C5_PersistOnlyOnSuccess ==
    \A r \in Req :
        /\ Failed(r) => io[r].create # "ok"
        /\ Succeeded(r) => io[r].stored = data[r]

\* C6: two answered requests whose "file" field carried the same bytes have
\* the same response.
C6_SameBytesSameResponse ==
    \A r, q \in Req :
        (Answered(r) /\ Answered(q) /\ data[r] # NoData /\ data[r] = data[q])
            => Same(resp[r], resp[q])

\* the response of a request served on its own: ev is what its field loop met
\* last, b the bytes of its "file" field, i whether the system refused its
\* create or one of its writes
Sequentially(ev, b, i) ==
    IF ev = "file" /\ Decoded[b].ok /\ i.create # "err" /\ i.write # "err"
    THEN Success(Decoded[b].x)
    ELSE Fail

\* C7: with the steps of the requests interleaved in any order, each request
\* is answered as it is when served on its own with the same fields and the
\* same outcomes of its own file operations.
C7_SameAsSequential ==
    \A r \in Req : Answered(r) => Same(resp[r], Sequentially(last[r], data[r], io[r]))

\* two requests of one display name overlapped (the file is a mix of both) and
\* both were answered Success
C7_Witness ==
    \E r, q \in Req :
        /\ r # q /\ Succeeded(r) /\ Succeeded(q)
        /\ torrent[r].x.info.name = torrent[q].x.info.name
        /\ storage[PathOf(torrent[r].x.info.name)] \notin {data[r], data[q]}

\* C8: every file that exists, and every file a handler holds open, is
\* /tmp/<segment>.torrent with no "/" in the segment.
C8_SinglePathSegment ==
    \A p \in DOMAIN storage \cup {file[r].path : r \in {q \in Req : file[q].open}} :
        /\ Len(p) >= 13
        /\ SubSeq(p, 1, 5) = <<"/", "t", "m", "p", "/">>
        /\ SubSeq(p, Len(p) - 7, Len(p)) = <<".", "t", "o", "r", "r", "e", "n", "t">>
        /\ Slashes(p) = 2

\* a torrent whose display name has two "/" was saved
C8_Witness ==
    \E r \in Req :
        /\ Succeeded(r)
        /\ Slashes(torrent[r].x.info.name) >= 2
        /\ PathOf(torrent[r].x.info.name) \in DOMAIN storage

\* the requests that decoded a torrent of the display name of r
SameName(r) ==
    {q \in Req : torrent[q].some /\ torrent[q].x.info.name = torrent[r].x.info.name}

\* C9: once every request is answered, the file of a display name that two or
\* more requests saved, all answered Success, holds the bytes of one of them.
C9_OneUploadWins ==
    \A r \in Req :
        ( /\ \A q \in Req : Answered(q)
          /\ torrent[r].some
          /\ Cardinality(SameName(r)) >= 2
          /\ \A q \in SameName(r) : Succeeded(q) )
        => storage[PathOf(torrent[r].x.info.name)] \in {data[q] : q \in SameName(r)}

\* C10: a field of another name leaves the handler in its loop; the end of the
\* fields, a field without a name or a read error ends it with Fail and with
\* nothing decoded; the "file" field decides the response by its decode and
\* save; and once the "file" field is read no further field is.
C10_FirstFileFieldDecides ==
    /\ [](\A r \in Req :
            /\ last[r] = "other" => pc[r] = "read" /\ resp[r] = NoResp
            /\ last[r] \in {"end", "noname", "readerr", "byteserr"} =>
                  /\ Answered(r) /\ Same(resp[r], Fail)
                  /\ data[r] = NoData /\ torrent[r] = None /\ io[r] = NoIO
            /\ (last[r] = "file" /\ Answered(r)) =>
                  Same(resp[r],
                       IF Decoded[data[r]].ok /\ io[r].create = "ok" /\ io[r].write = "ok"
                       THEN Success(Decoded[data[r]].x)
                       ELSE Fail))
    /\ [][\A r \in Req :
            last[r] = "file" =>
                last'[r] = "file" /\ passed'[r] = passed[r] /\ data'[r] = data[r]]_vars

\* a request passed over a field of another name and was then answered Success
\* by its "file" field
C10_Witness ==
    \E r \in Req : Succeeded(r) /\ passed[r] /\ last[r] = "file"

====
